---- MODULE Spec2Model ----
(***************************************************************************)
(* A model of the Windows console screen driver (console_win.go): the      *)
(* cScreen object, the console it drives, its scanner goroutines, the      *)
(* event queue and the goroutines that call its public methods.            *)
(*                                                                         *)
(* Sequential code is modelled as functions on a "world" record            *)
(*   [s |-> the cScreen fields, con |-> the console, out |-> the console   *)
(*    calls issued by the running step]                                    *)
(* so that a handler is the composition of the helpers it calls, in the    *)
(* order of the source.                                                    *)
(***************************************************************************)
EXTENDS Integers, Sequences, FiniteSets, TLC

(***************************************************************************)
(* Bounds of the model.                                                    *)
(***************************************************************************)
\* engage may allocate a stop channel / cancellation event this many times
MaxEngage == 2
\* console input records that arrive during one behaviour
MaxRecords == 2

(***************************************************************************)
(* Program constants.                                                      *)
(***************************************************************************)
\* make(chan Event, 10)
QueueCap == 10

modeExtendFlg == 128
modeMouseEn == 16
modeResizeEn == 8

modeCookedOut == 1
modeVtOutput == 4
modeNoAutoNL == 8
modeUnderline == 16

\* SetSize's threshold for "this is Windows Terminal"
LargeConsole == 500

\* the goroutines that call the public methods
Callers == {1, 2}

\* engage ids: the n-th engage that passes its running check allocates
\* stop channel n and (when CreateEvent succeeds) cancellation event n
EngageIds == 1..MaxEngage

(***************************************************************************)
(* Bit arithmetic on the mode and attribute words.                         *)
(***************************************************************************)
\* bit b (a power of two) of word v is set
HasBit(v, b) == (v \div b) % 2 = 1

\* v | b for a single bit b
SetBit(v, b) == IF HasBit(v, b) THEN v ELSE v + b

\* v &^ b for a single bit b
ClearBit(v, b) == IF HasBit(v, b) THEN v - b ELSE v

VtOutMode == modeVtOutput + modeNoAutoNL + modeCookedOut + modeUnderline

(***************************************************************************)
(* Colors and styles (the part of Style that the legacy attribute uses).   *)
(***************************************************************************)
ColorDefault == "ColorDefault"
ColorReset == "ColorReset"

\* vgaColors: the 16 named colors and their attribute nibble
vgaColors ==
    [ColorBlack |-> 0, ColorMaroon |-> 4, ColorGreen |-> 2, ColorNavy |-> 1,
     ColorOlive |-> 6, ColorPurple |-> 5, ColorTeal |-> 3, ColorSilver |-> 7,
     ColorGray |-> 8, ColorRed |-> 12, ColorLime |-> 10, ColorBlue |-> 9,
     ColorYellow |-> 14, ColorFuchsia |-> 13, ColorAqua |-> 11, ColorWhite |-> 15]

\* mapColor2RGB on the named colors (winColors maps each to itself)
mapColor2RGB(c) == IF c \in DOMAIN vgaColors THEN vgaColors[c] ELSE 0

StyleDefault == [fg |-> ColorDefault, bg |-> ColorDefault, attrs |-> {}]

\* a mapStyle that applies bold and dim to the foreground before the swap
mapStyleBoldFirst(oattrs, style) ==
    LET fa0 == oattrs % 16
        ba0 == (oattrs \div 16) % 16
        fa == IF style.fg # ColorDefault /\ style.fg # ColorReset
              THEN mapColor2RGB(style.fg) ELSE fa0
        ba == IF style.bg # ColorDefault /\ style.bg # ColorReset
              THEN mapColor2RGB(style.bg) ELSE ba0
        f1 == IF "bold" \in style.attrs THEN SetBit(fa, 8) ELSE fa
        f2 == IF "dim" \in style.attrs THEN ClearBit(f1, 8) ELSE f1
        a0 == IF "reverse" \in style.attrs THEN ba + f2 * 16 ELSE f2 + ba * 16
    IN  IF "underline" \in style.attrs THEN SetBit(a0, 32768) ELSE a0

\* mapStyle: the legacy attribute word of a style; oattrs is s.oscreen.attrs
mapStyle(oattrs, style) ==
    LET fa0 == oattrs % 16
        ba0 == (oattrs \div 16) % 16
        fa == IF style.fg # ColorDefault /\ style.fg # ColorReset
              THEN mapColor2RGB(style.fg) ELSE fa0
        ba == IF style.bg # ColorDefault /\ style.bg # ColorReset
              THEN mapColor2RGB(style.bg) ELSE ba0
        a0 == IF "reverse" \in style.attrs THEN ba + fa * 16 ELSE fa + ba * 16
        a1 == IF "bold" \in style.attrs THEN SetBit(a0, 8) ELSE a0
        a2 == IF "dim" \in style.attrs THEN ClearBit(a1, 8) ELSE a1
    IN  IF "underline" \in style.attrs THEN SetBit(a2, 32768) ELSE a2

\* the columns a code point takes on the terminal: "W" stands for a wide
\* glyph, "^" for a combining mark
RuneWidth(r) == IF r = "W" THEN 2 ELSE IF r = "^" THEN 0 ELSE 1

\* makeVtStyle: what the SGR sequence of a style selects.  Bold is sent
\* only when dim is not set, dim itself never; a color is sent when it is
\* a palette color, and the default color is left to the reset
makeVtStyle(style) ==
    [bold |-> "bold" \in style.attrs /\ "dim" \notin style.attrs,
     blink |-> "blink" \in style.attrs,
     reverse |-> "reverse" \in style.attrs,
     fg |-> IF style.fg \in DOMAIN vgaColors THEN style.fg ELSE "none",
     bg |-> IF style.bg \in DOMAIN vgaColors THEN style.bg ELSE "none"]

(***************************************************************************)
(* CellBuffer: a W x H grid of cells, each a rune, its combining runes, a  *)
(* style, a width and a dirty bit.                                         *)
(***************************************************************************)
Grid(gw, gh) == (0..(gw - 1)) \X (0..(gh - 1))

BlankCell == [mainc |-> " ", combc |-> <<>>, style |-> StyleDefault,
              width |-> 1, dirty |-> TRUE]

\* the zero CellBuffer of a new cScreen
NoCells == [w |-> 0, h |-> 0, c |-> [p \in {} |-> BlankCell]]

\* CellBuffer.Resize: new dimensions, the overlapping region kept, every
\* cell dirty
Resize(cells, gw, gh) ==
    [w |-> gw, h |-> gh,
     c |-> [p \in Grid(gw, gh) |->
              IF p \in DOMAIN cells.c
              THEN [cells.c[p] EXCEPT !.dirty = TRUE] ELSE BlankCell]]

\* CellBuffer.Invalidate: every cell dirty
Invalidate(cells) ==
    [cells EXCEPT !.c = [p \in DOMAIN cells.c |-> [cells.c[p] EXCEPT !.dirty = TRUE]]]

\* CellBuffer.GetContent: the zero cell outside the grid
GetContent(cells, x, y) ==
    IF <<x, y>> \in DOMAIN cells.c THEN cells.c[<<x, y>>]
    ELSE [BlankCell EXCEPT !.dirty = FALSE]

\* CellBuffer.Dirty
Dirty(cells, x, y) == <<x, y>> \in DOMAIN cells.c /\ cells.c[<<x, y>>].dirty

\* CellBuffer.SetDirty: nothing outside the grid
SetDirty(cells, x, y, flag) ==
    IF <<x, y>> \in DOMAIN cells.c
    THEN [cells EXCEPT !.c[<<x, y>>].dirty = flag] ELSE cells

\* CellBuffer.SetContent: stores the rune, the combining runes and the
\* style and computes the width (wide is the rune's width); when the rune,
\* the combining runes or the style change, the positions the cell took
\* become dirty.  Nothing outside the grid.
SetContent(cells, x, y, mainc, combc, style, wide) ==
    IF <<x, y>> \notin DOMAIN cells.c THEN cells
    ELSE LET c == cells.c[<<x, y>>]
             changed == mainc # c.mainc \/ combc # c.combc \/ style # c.style
             took == {<<x + dx, y>> : dx \in 0..(c.width - 1)} \cap DOMAIN cells.c
         IN  [cells EXCEPT !.c =
                [p \in DOMAIN cells.c |->
                   IF p = <<x, y>>
                   THEN [mainc |-> mainc, combc |-> combc, style |-> style,
                         width |-> IF wide < 1 THEN 1 ELSE wide,
                         dirty |-> c.dirty \/ changed]
                   ELSE IF changed /\ p \in took THEN [cells.c[p] EXCEPT !.dirty = TRUE]
                   ELSE cells.c[p]]]

\* the positions of the grid whose dirty bit is set
DirtySet(cells) == {p \in DOMAIN cells.c : cells.c[p].dirty}

(***************************************************************************)
(* The console: what the Win32 calls and the VT strings read and change.   *)
(***************************************************************************)
\* the display with glyph g at position p
Put(screen, p, g) ==
    [q \in DOMAIN screen \cup {p} |-> IF q = p THEN g ELSE screen[q]]

\* the display after the code units ch are written from column cx of row
\* y on in rendition st: a glyph lands on its column, a wide glyph also
\* takes the next column, a combining mark joins the glyph at base
RECURSIVE TermWrite(_, _, _, _, _, _)
TermWrite(screen, cx, y, st, ch, base) ==
    IF Len(ch) = 0 THEN screen
    ELSE LET r == Head(ch)
         IN  IF RuneWidth(r) = 0
             THEN TermWrite(IF base \in DOMAIN screen
                            THEN [screen EXCEPT ![base].comb = Append(@, r)]
                            ELSE screen,
                            cx, y, st, Tail(ch), base)
             ELSE LET s1 == Put(screen, <<cx, y>>, [ch |-> r, comb |-> <<>>, st |-> st])
                      s2 == IF RuneWidth(r) = 2
                            THEN Put(s1, <<cx + 1, y>>,
                                     [ch |-> "right half", comb |-> <<>>, st |-> st])
                            ELSE s1
                  IN  TermWrite(s2, cx + RuneWidth(r), y, st, Tail(ch), <<cx, y>>)

\* a display on which nothing is written
NoDisplay == [p \in {} |-> 0]

\* SetConsoleMode / GetConsoleMode on the input handle
setInMode(W, mode) ==
    [W EXCEPT !.con.inMode = mode, !.out = Append(@, <<"setInMode", mode>>)]

\* SetConsoleMode on the output handle; a console without VT support
\* rejects a mode with the VT bit and keeps its mode
setOutMode(W, mode) ==
    [W EXCEPT !.con.outMode =
                 IF HasBit(mode, modeVtOutput) /\ ~W.con.vtCapable THEN @ ELSE mode,
              !.out = Append(@, <<"setOutMode", mode>>)]

\* SetConsoleCursorInfo
setCursorInfo(W, info) ==
    [W EXCEPT !.con.cursor = info, !.out = Append(@, <<"setCursorInfo", info>>)]

\* SetConsoleScreenBufferSize
setBufferSize(W, x, y) ==
    [W EXCEPT !.con.size = <<x, y>>, !.out = Append(@, <<"setBufferSize", x, y>>)]

\* SetConsoleWindowInfo with the rectangle 0, 0, ww-1, wh-1
setWindowInfo(W, ww, wh) ==
    [W EXCEPT !.con.win = <<ww, wh>>, !.out = Append(@, <<"setWindowInfo", ww, wh>>)]

\* SetConsoleTextAttribute
setTextAttribute(W, attr) ==
    [W EXCEPT !.con.attrs = attr, !.out = Append(@, <<"setTextAttribute", attr>>)]

\* WriteConsole of a VT string, given as <<name, arguments...>>: show/hide
\* cursor and the alternate screen change the console, the other strings
\* are only recorded
emitVtString(W, vs) ==
    LET W1 == [W EXCEPT !.out = Append(@, <<"vt">> \o vs)]
    IN  CASE vs[1] = "vtShowCursor" -> [W1 EXCEPT !.con.cursor.visible = 1]
          [] vs[1] = "vtHideCursor" -> [W1 EXCEPT !.con.cursor.visible = 0]
          [] vs[1] = "vtEnterCA" -> [W1 EXCEPT !.con.alt = TRUE, !.con.screen = NoDisplay]
          [] vs[1] = "vtExitCA" -> [W1 EXCEPT !.con.alt = FALSE, !.con.screen = NoDisplay]
          [] vs[1] = "row" -> [W1 EXCEPT !.con.screen = NoDisplay]
          [] OTHER -> W1

\* setCursorPos: a VT string, or SetConsoleCursorPosition
setCursorPos(W, x, y, vtEnable) ==
    IF vtEnable THEN emitVtString(W, <<"vtCursorPos", y + 1, x + 1>>)
    ELSE [W EXCEPT !.con.pos = <<x, y>>, !.out = Append(@, <<"setCursorPos", x, y>>)]

\* the cursor styles vtCursorStyles knows
vtCursorStyles ==
    {"CursorStyleDefault", "CursorStyleBlinkingBlock", "CursorStyleSteadyBlock",
     "CursorStyleBlinkingUnderline", "CursorStyleSteadyUnderline",
     "CursorStyleBlinkingBar", "CursorStyleSteadyBar"}

showCursor(W) ==
    IF W.s.vten
    THEN LET W1 == emitVtString(W, <<"vtShowCursor">>)
             W2 == emitVtString(W1, <<"vtCursorStyle", W.s.cursorStyle>>)
         IN  IF W.s.cursorColor = ColorReset
             THEN emitVtString(W2, <<"vtCursorColorReset">>)
             ELSE IF W.s.cursorColor # ColorDefault
                  THEN emitVtString(W2, <<"vtCursorColorRGB", W.s.cursorColor>>)
                  ELSE W2
    ELSE setCursorInfo(W, [size |-> 100, visible |-> 1])

hideCursor(W) ==
    IF W.s.vten THEN emitVtString(W, <<"vtHideCursor">>)
    ELSE setCursorInfo(W, [size |-> 1, visible |-> 0])

doCursor(W) ==
    LET x == W.s.curx
        y == W.s.cury
    IN  IF x < 0 \/ y < 0 \/ x >= W.s.w \/ y >= W.s.h THEN hideCursor(W)
        ELSE showCursor(setCursorPos(W, x, y, W.s.vten))

(***************************************************************************)
(* Geometry and rendering.                                                 *)
(***************************************************************************)
\* an event on the queue: its kind, the console record it was decoded
\* from (0: posted by resize) and, of a key or mouse event, the key, the
\* rune and the modifiers, of a focus event, the focus
Event(kind, rec) ==
    [kind |-> kind, rec |-> rec, key |-> <<>>, ch |-> 0, mod |-> {}, focused |-> FALSE]

\* a resize that sends its event whatever the queue holds
resizeSends(W) ==
    LET ww == W.con.win[1]
        wh == W.con.win[2]
    IN  IF W.s.w = ww /\ W.s.h = wh THEN W
        ELSE LET W1 == [W EXCEPT !.s.cells = Resize(@, ww, wh), !.s.w = ww, !.s.h = wh]
                 W2 == setWindowInfo(setBufferSize(W1, ww, wh), ww, wh)
             IN  [W2 EXCEPT !.s.eventQ = Append(@, Event("resize", 0))]

\* resize: settle the tracked size on the console's viewport
resize(W) ==
    LET ww == W.con.win[1]
        wh == W.con.win[2]
    IN  IF W.s.w = ww /\ W.s.h = wh THEN W
        ELSE LET W1 == [W EXCEPT !.s.cells = Resize(@, ww, wh), !.s.w = ww, !.s.h = wh]
                 W2 == setWindowInfo(setBufferSize(W1, ww, wh), ww, wh)
             IN  IF Len(W2.s.eventQ) < QueueCap
                 THEN [W2 EXCEPT !.s.eventQ = Append(@, Event("resize", 0))]
                 ELSE W2

\* the sentinel that differs from every style a cell can have
styleInvalid == [fg |-> "invalid", bg |-> "invalid", attrs |-> {}]

\* a writeString that takes the column for the row
writeStringSwapped(W, x, y, style, ch) ==
    IF Len(ch) = 0 THEN W
    ELSE IF W.s.vten
         THEN LET st == makeVtStyle(style)
              IN  [W EXCEPT !.out = Append(@, <<"WriteConsole",
                                       <<"vtCursorPos", x + 1, y + 1>>, <<"vtStyle", st>>, ch>>),
                            !.con.screen = TermWrite(@, y, x, st, ch, <<y, x>>)]
         ELSE LET W1 == setCursorPos(W, y, x, W.s.vten)
                  W2 == setTextAttribute(W1, mapStyle(W.s.oscreen.attrs, style))
              IN  [W2 EXCEPT !.out = Append(@, <<"WriteConsole", ch>>),
                             !.con.screen = TermWrite(@, W2.con.pos[1], W2.con.pos[2],
                                                      W2.con.attrs, ch, W2.con.pos)]

\* writeString: one write of a run of code units at (x, y) in one style
writeString(W, x, y, style, ch) ==
    IF Len(ch) = 0 THEN W
    ELSE IF W.s.vten
         THEN LET st == makeVtStyle(style)
              IN  [W EXCEPT !.out = Append(@, <<"WriteConsole",
                                       <<"vtCursorPos", y + 1, x + 1>>, <<"vtStyle", st>>, ch>>),
                            !.con.screen = TermWrite(@, x, y, st, ch, <<x, y>>)]
         ELSE LET W1 == setCursorPos(W, x, y, W.s.vten)
                  W2 == setTextAttribute(W1, mapStyle(W.s.oscreen.attrs, style))
              IN  [W2 EXCEPT !.out = Append(@, <<"WriteConsole", ch>>),
                             !.con.screen = TermWrite(@, W2.con.pos[1], W2.con.pos[2],
                                                      W2.con.attrs, ch, W2.con.pos)]

\* (a draw that clears the dirty bit of a cell's first column only)
clearDirtyFirst(cells, x, y, width) == SetDirty(cells, x, y, FALSE)

\* SetDirty(x+dx, y, false) for dx in 0..width-1
RECURSIVE clearDirty(_, _, _, _)
clearDirty(cells, x, y, width) ==
    IF width <= 0 THEN cells
    ELSE SetDirty(clearDirty(cells, x, y, width - 1), x + width - 1, y, FALSE)

\* a draw that flushes the pending run at clean cells only
flushAtClean(dirty, style, lstyle) == ~dirty

\* draw's test before a cell: the pending run is written out when the cell
\* is skipped or its style differs
flushNeeded(dirty, style, lstyle) == ~dirty \/ style # lstyle

\* a draw that lets a glyph run over the last column
neverOverEdge(x, w, width) == FALSE

\* draw's test of a glyph that would run over the last column
overEdge(x, w, width) == x > w - width

\* draw's loops from cell (x, y) on; R is the pending run: its code units
\* wcs, its style lstyle and its start (lx, ly)
RECURSIVE drawFrom(_, _, _, _)
drawFrom(W, x, y, R) ==
    IF y >= W.s.h THEN W
    ELSE IF x >= W.s.w
    THEN drawFrom(writeString(W, R.lx, R.ly, R.lstyle, R.wcs), 0, y + 1,
                  [R EXCEPT !.wcs = <<>>, !.lstyle = styleInvalid])
    ELSE LET cell == GetContent(W.s.cells, x, y)
             dirty == Dirty(W.s.cells, x, y)
             style == IF cell.style = StyleDefault THEN W.s.style ELSE cell.style
             flush == flushNeeded(dirty, style, R.lstyle)
             W1 == IF flush THEN writeString(W, R.lx, R.ly, R.lstyle, R.wcs) ELSE W
             R1 == IF flush THEN [R EXCEPT !.wcs = <<>>, !.lstyle = StyleDefault] ELSE R
         IN  IF ~dirty THEN drawFrom(W1, x + 1, y, R1)
             ELSE LET edge == overEdge(x, W.s.w, cell.width)
                      mainc == IF edge THEN " " ELSE cell.mainc
                      combc == IF edge THEN <<>> ELSE cell.combc
                      width == IF edge THEN 1 ELSE cell.width
                      R2 == IF Len(R1.wcs) = 0
                            THEN [R1 EXCEPT !.lstyle = style, !.lx = x, !.ly = y]
                            ELSE R1
                      R3 == [R2 EXCEPT !.wcs = (@ \o <<mainc>>) \o combc]
                  IN  drawFrom([W1 EXCEPT !.s.cells = clearDirty(@, x, y, width)],
                               x + width, y, R3)

draw(W) ==
    drawFrom(W, 0, 0, [wcs |-> <<>>, lstyle |-> styleInvalid, lx |-> -1, ly |-> -1])

\* clearScreen's VT loop: position and blank row y, then the rows below
RECURSIVE clearRows(_, _)
clearRows(W, y) ==
    IF y >= W.s.h THEN W
    ELSE clearRows(emitVtString(setCursorPos(W, 0, y, TRUE), <<"row", W.s.w>>), y + 1)

clearScreen(W, style, vtEnable) ==
    IF vtEnable
    THEN setCursorPos(clearRows(emitVtString(W, <<"vtStyle", makeVtStyle(style)>>), 0),
                      0, 0, vtEnable)
    ELSE LET attr == mapStyle(W.s.oscreen.attrs, style)
             count == W.s.w * W.s.h
         IN  [W EXCEPT !.out = Append(Append(@, <<"FillConsoleOutputAttribute", attr, count>>),
                                      <<"FillConsoleOutputCharacter", " ", count>>),
                       !.con.screen = NoDisplay]

(***************************************************************************)
(* State.                                                                  *)
(*   s          the cScreen: its fields, with mu the holder of its Mutex   *)
(*              (0: free), wg the WaitGroup's counter, stopQ/cancelflag    *)
(*              the ids of the channel and event the last engage made,     *)
(*              quit "nil" | "open" | "closed", finiOnce "new" | "doing" | *)
(*              "done"                                                     *)
(*   con        the console                                                *)
(*   inited     "new" | "ok" | "failed": how the call of Init went         *)
(*   pc         where each calling goroutine is inside its call            *)
(*   scan       the scanner goroutines, one per engage id                  *)
(*   closedQ    the stop channels that are closed                          *)
(*   signalled  the cancellation events that are set                       *)
(*   input      the record waiting in the console's input buffer           *)
(*   nread      records read from the console so far                       *)
(*   recvd      the record of the last input event the consumer received   *)
(*   last       the step just taken: who, what, and whether it returned    *)
(*   emit       the console calls the step just taken issued               *)
(***************************************************************************)
VARIABLES s, con, inited, pc, scan, closedQ, signalled, input, nread, recvd,
          last, emit

vars == <<s, con, inited, pc, scan, closedQ, signalled, input, nread, recvd,
          last, emit>>

\* the world a step starts from
World == [s |-> s, con |-> con, out |-> <<>>]

\* the step ends in world W
Becomes(W) == s' = W.s /\ con' = W.con /\ emit' = W.out

Step(t, op, done, err) == [by |-> t, op |-> op, done |-> done, err |-> err]

(***************************************************************************)
(* Lifecycle: Init, engage, disengage.                                     *)
(***************************************************************************)
enableMouse(W, on) ==
    IF on THEN setInMode(W, modeResizeEn + modeMouseEn + modeExtendFlg)
    ELSE setInMode(W, modeResizeEn + modeExtendFlg)

\* Init up to its call of engage, under the environment E and on a console
\* whose handles opened
initBody(W, E) ==
    LET conEmu == E.ConEmuPID # ""
        tc == CASE E.TCELL_TRUECOLOR = "disable" -> FALSE
                [] E.TCELL_TRUECOLOR = "enable" -> TRUE
                [] OTHER -> ~conEmu
        tryVt0 == CASE E.TCELL_TRUECOLOR = "enable" -> TRUE
                    [] OTHER -> ~conEmu
        tryVt == CASE E.TCELL_VTMODE = "disable" -> FALSE
                   [] E.TCELL_VTMODE = "enable" -> TRUE
                   [] OTHER -> tryVt0
        W1 == [W EXCEPT !.s.eventQ = <<>>, !.s.quit = "open", !.s.truecolor = tc,
                        !.s.curx = -1, !.s.cury = -1, !.s.style = StyleDefault,
                        !.s.ocursor = W.con.cursor,
                        !.s.oscreen = [size |-> W.con.size, pos |-> W.con.pos,
                                       attrs |-> W.con.attrs, win |-> W.con.win],
                        !.s.oomode = W.con.outMode, !.s.oimode = W.con.inMode]
        W2 == [resize(W1) EXCEPT !.s.fini = FALSE]
        W3 == setInMode(W2, modeResizeEn + modeExtendFlg)
        W4 == [W3 EXCEPT !.s.disableAlt =
                  CASE E.TCELL_ALTSCREEN = "enable" -> FALSE
                    [] E.TCELL_ALTSCREEN = "disable" -> TRUE
                    [] OTHER -> @]
    IN  IF tryVt
        THEN LET W5 == setOutMode(W4, VtOutMode)
             IN  IF HasBit(W5.con.outMode, modeVtOutput)
                 THEN [W5 EXCEPT !.s.vten = TRUE]
                 ELSE setOutMode([W5 EXCEPT !.s.truecolor = FALSE], 0)
        ELSE setOutMode(W4, 0)

\* engage after its running check: id is the new stop channel, created
\* says whether CreateEvent gave an event (then also numbered id)
engageBody(W, id, created) ==
    LET W0 == [W EXCEPT !.s.stopQ = id]
    IN  IF ~created THEN W0
        ELSE
        LET W1 == enableMouse([W0 EXCEPT !.s.running = TRUE, !.s.cancelflag = id],
                              W0.s.mouseEnabled)
            W2 == IF W1.s.vten
                  THEN LET V1 == setOutMode(W1, VtOutMode)
                           V2 == IF ~V1.s.disableAlt
                                 THEN emitVtString(emitVtString(V1, <<"vtSaveTitle">>),
                                                   <<"vtEnterCA">>)
                                 ELSE V1
                           V3 == emitVtString(V2, <<"vtDisableAm">>)
                       IN  IF V3.s.title # ""
                           THEN emitVtString(V3, <<"vtSetTitle", V3.s.title>>)
                           ELSE V3
                  ELSE setOutMode(W1, 0)
            W3 == hideCursor(clearScreen(W2, W2.s.style, W2.s.vten))
            W4 == hideCursor([W3 EXCEPT !.s.cells = Invalidate(@)])
            W5 == doCursor(draw(resize(W4)))
        IN  [W5 EXCEPT !.s.wg = @ + 1]

\* disengage's locked part, on a running screen: returns the world, the
\* caller then sets the event and closes the channel the world names
disengageLocked(W) == [W EXCEPT !.s.running = FALSE]

\* a disengage that stays in the alternate screen
disengageRestoreInAlt(W) ==
    LET W1 == IF W.s.vten
              THEN LET V1 == emitVtString(W, <<"vtCursorStyle", "CursorStyleDefault">>)
                       V2 == emitVtString(V1, <<"vtCursorColorReset">>)
                   IN  emitVtString(V2, <<"vtEnableAm">>)
              ELSE IF ~W.s.disableAlt
                   THEN setCursorPos(clearScreen(W, StyleDefault, W.s.vten), 0, 0, FALSE)
                   ELSE W
        W2 == setCursorInfo(W1, W1.s.ocursor)
        W3 == setBufferSize(W2, W2.s.oscreen.size[1], W2.s.oscreen.size[2])
        W4 == setOutMode(setInMode(W3, W3.s.oimode), W3.s.oomode)
    IN  setTextAttribute(W4, mapStyle(W4.s.oscreen.attrs, StyleDefault))

\* disengage after wg.Wait
disengageRestore(W) ==
    LET W1 == IF W.s.vten
              THEN LET V1 == emitVtString(W, <<"vtCursorStyle", "CursorStyleDefault">>)
                       V2 == emitVtString(V1, <<"vtCursorColorReset">>)
                       V3 == emitVtString(V2, <<"vtEnableAm">>)
                   IN  IF ~V3.s.disableAlt
                       THEN emitVtString(emitVtString(V3, <<"vtRestoreTitle">>),
                                         <<"vtExitCA">>)
                       ELSE V3
              ELSE IF ~W.s.disableAlt
                   THEN setCursorPos(clearScreen(W, StyleDefault, W.s.vten), 0, 0, FALSE)
                   ELSE W
        W2 == setCursorInfo(W1, W1.s.ocursor)
        W3 == setBufferSize(W2, W2.s.oscreen.size[1], W2.s.oscreen.size[2])
        W4 == setOutMode(setInMode(W3, W3.s.oimode), W3.s.oomode)
    IN  setTextAttribute(W4, mapStyle(W4.s.oscreen.attrs, StyleDefault))

(***************************************************************************)
(* The initial state: a new cScreen (NewConsoleScreen) on a console.       *)
(***************************************************************************)
NoRec == [typ |-> "none"]
NoEvent == Event("none", 0)

\* a scanner goroutine that was not started
\* (err: the error getConsoleInput returned, "" for none; seen: history,
\* focus reporting as it was when the record was read)
NoScanner ==
    [pc |-> "none", cf |-> 0, rec |-> NoRec, ev |-> NoEvent, n |-> 0, seen |-> FALSE,
     err |-> ""]

NewScreen ==
    [cancelflag |-> 0, quit |-> "nil", curx |-> 0, cury |-> 0,
     style |-> StyleDefault, fini |-> FALSE, vten |-> FALSE, truecolor |-> FALSE,
     running |-> FALSE, disableAlt |-> FALSE, title |-> "", w |-> 0, h |-> 0,
     oscreen |-> [size |-> <<0, 0>>, pos |-> <<0, 0>>, attrs |-> 0, win |-> <<0, 0>>],
     ocursor |-> [size |-> 0, visible |-> 0],
     cursorStyle |-> "CursorStyleDefault", cursorColor |-> ColorDefault,
     oimode |-> 0, oomode |-> 0, cells |-> NoCells, focusEnable |-> FALSE,
     mouseEnabled |-> FALSE, wg |-> 0, eventQ |-> <<>>, stopQ |-> 0,
     finiOnce |-> "new", mu |-> 0]

\* the consoles a program is started on: input mode, output mode, cursor,
\* buffer size, viewport and text attribute as the shell left them
OrigConsoles ==
    {[inMode |-> 503, outMode |-> 3, cursor |-> [size |-> 25, visible |-> 1],
      size |-> <<3, 4>>, pos |-> <<0, 0>>, attrs |-> 7, win |-> <<3, 2>>,
      alt |-> FALSE, vtCapable |-> TRUE, screen |-> NoDisplay],
     [inMode |-> 167, outMode |-> 1, cursor |-> [size |-> 50, visible |-> 1],
      size |-> <<2, 3>>, pos |-> <<0, 0>>, attrs |-> 30, win |-> <<2, 1>>,
      alt |-> FALSE, vtCapable |-> FALSE, screen |-> NoDisplay]}

\* the viewports a user can drag the window to
WinSizes == {<<2, 1>>, <<3, 2>>}

Init ==
    /\ s = NewScreen
    /\ con \in OrigConsoles
    /\ inited = "new"
    /\ pc = [t \in Callers |-> "idle"]
    /\ scan = [i \in EngageIds |-> NoScanner]
    /\ closedQ = {}
    /\ signalled = {}
    /\ input = NoRec
    /\ nread = 0
    /\ recvd = 0
    /\ last = Step(0, "other", FALSE, "")
    /\ emit = <<>>

(***************************************************************************)
(* The public methods, called by goroutine t.                              *)
(***************************************************************************)
Idle(t) == pc[t] = "idle" /\ inited = "ok"

Goto(t, at) == pc' = [pc EXCEPT ![t] = at]

\* the process environment Init reads
Envs ==
    [ConEmuPID : {"", "1234"}, TCELL_TRUECOLOR : {"", "enable", "disable"},
     TCELL_VTMODE : {"", "enable", "disable"},
     TCELL_ALTSCREEN : {"", "enable", "disable"}]

\* go s.scanInput(s.stopQ) for engage id
StartScanner(id) == scan' = [scan EXCEPT ![id] = [NoScanner EXCEPT !.pc = "check"]]

\* Init on handles that opened; its engage may fail to create the event
InitCall(t, ES) ==
    /\ pc[t] = "idle" /\ inited = "new"
    /\ \E E \in ES, created \in BOOLEAN :
         /\ Becomes(engageBody(initBody(World, E), 1, created))
         /\ IF created THEN StartScanner(1) /\ inited' = "ok"
            ELSE scan' = scan /\ inited' = "failed"
         /\ last' = Step(t, "Init", TRUE, IF created THEN "" ELSE "CreateEvent")
    /\ UNCHANGED <<pc, closedQ, signalled, input, nread, recvd>>

\* Init when CONIN$ or CONOUT$ does not open
InitOpenFails(t) ==
    /\ pc[t] = "idle" /\ inited = "new"
    /\ s' = [s EXCEPT !.eventQ = <<>>, !.quit = "open"]
    /\ inited' = "failed"
    /\ last' = Step(t, "Init", TRUE, "Open")
    /\ emit' = <<>>
    /\ UNCHANGED <<con, pc, scan, closedQ, signalled, input, nread, recvd>>

\* an engage that does not look at s.running
engageUnchecked(t) ==
    /\ Idle(t) /\ s.mu = 0
    /\ s.stopQ < MaxEngage
    /\ \E created \in BOOLEAN :
         /\ Becomes(engageBody(World, s.stopQ + 1, created))
         /\ IF created THEN StartScanner(s.stopQ + 1) ELSE scan' = scan
         /\ last' = Step(t, "Resume", TRUE, IF created THEN "" ELSE "CreateEvent")
    /\ UNCHANGED <<inited, pc, closedQ, signalled, input, nread, recvd>>

\* Resume: engage
Resume(t) ==
    /\ Idle(t) /\ s.mu = 0
    /\ IF s.running
       THEN /\ last' = Step(t, "Resume", TRUE, "already engaged")
            /\ emit' = <<>>
            /\ UNCHANGED <<s, con, scan>>
       ELSE /\ s.stopQ < MaxEngage
            /\ \E created \in BOOLEAN :
                 /\ Becomes(engageBody(World, s.stopQ + 1, created))
                 /\ IF created THEN StartScanner(s.stopQ + 1) ELSE scan' = scan
                 /\ last' = Step(t, "Resume", TRUE, IF created THEN "" ELSE "CreateEvent")
    /\ UNCHANGED <<inited, pc, closedQ, signalled, input, nread, recvd>>

\* disengage up to wg.Wait, called by fn ("Suspend" or "Fini")
disengageEnter(t, fn) ==
    /\ s.mu = 0
    /\ IF ~s.running
       THEN /\ s' = [s EXCEPT !.finiOnce = IF fn = "Fini" THEN "done" ELSE @]
            /\ Goto(t, "idle")
            /\ last' = Step(t, fn, TRUE, "")
            /\ UNCHANGED <<closedQ, signalled>>
       ELSE /\ s' = disengageLocked(World).s
            /\ signalled' = signalled \cup {s.cancelflag}
            /\ closedQ' = closedQ \cup {s.stopQ}
            /\ Goto(t, fn \o ".wait")
            /\ last' = Step(t, fn, FALSE, "")
    /\ emit' = <<>>
    /\ UNCHANGED <<con, inited, scan, input, nread, recvd>>

\* Suspend: disengage
Suspend(t) == Idle(t) /\ disengageEnter(t, "Suspend")

\* wg.Wait returns
disengageWait(t) ==
    /\ pc[t] \in {"Suspend.wait", "Fini.wait"}
    /\ s.wg = 0
    /\ Goto(t, IF pc[t] = "Fini.wait" THEN "Fini.restore" ELSE "Suspend.restore")
    /\ last' = Step(t, "wg.Wait", FALSE, "")
    /\ emit' = <<>>
    /\ UNCHANGED <<s, con, inited, scan, closedQ, signalled, input, nread, recvd>>

\* the rest of disengage, and the return of Suspend or Fini
disengageLeave(t) ==
    /\ pc[t] \in {"Suspend.restore", "Fini.restore"}
    /\ LET W == disengageRestore(World)
       IN  Becomes(IF pc[t] = "Fini.restore" THEN [W EXCEPT !.s.finiOnce = "done"] ELSE W)
    /\ Goto(t, "idle")
    /\ last' = Step(t, IF pc[t] = "Fini.restore" THEN "Fini" ELSE "Suspend", TRUE, "")
    /\ UNCHANGED <<inited, scan, closedQ, signalled, input, nread, recvd>>

\* a Fini without the Once
FiniEachCall(t) ==
    /\ Idle(t)
    /\ s.finiOnce # "doing"
    /\ s' = [s EXCEPT !.finiOnce = "doing", !.quit = "closed"]
    /\ Goto(t, "Fini.disengage")
    /\ last' = Step(t, "Fini", FALSE, "")
    /\ emit' = <<>>
    /\ UNCHANGED <<con, inited, scan, closedQ, signalled, input, nread, recvd>>

\* Fini: finiOnce.Do(close(quit); disengage); a call that finds the Once
\* done returns, one that finds it being done waits
Fini(t) ==
    /\ Idle(t)
    /\ s.finiOnce # "doing"
    /\ IF s.finiOnce = "done"
       THEN /\ UNCHANGED <<s, pc>>
            /\ last' = Step(t, "Fini", TRUE, "")
       ELSE /\ s' = [s EXCEPT !.finiOnce = "doing", !.quit = "closed"]
            /\ Goto(t, "Fini.disengage")
            /\ last' = Step(t, "Fini", FALSE, "")
    /\ emit' = <<>>
    /\ UNCHANGED <<con, inited, scan, closedQ, signalled, input, nread, recvd>>

\* Fini's call of disengage
FiniDisengage(t) == pc[t] = "Fini.disengage" /\ disengageEnter(t, "Fini")

\* a method that holds the Mutex for one step and takes world W0 to W
Locked(t, op, W) ==
    /\ Idle(t) /\ s.mu = 0
    /\ Becomes(W)
    /\ last' = Step(t, op, TRUE, "")
    /\ UNCHANGED <<inited, pc, scan, closedQ, signalled, input, nread, recvd>>

EnableMouse(t) == Locked(t, "EnableMouse", enableMouse([World EXCEPT !.s.mouseEnabled = TRUE], TRUE))

DisableMouse(t) == Locked(t, "DisableMouse", enableMouse([World EXCEPT !.s.mouseEnabled = FALSE], FALSE))

EnableFocus(t) == Locked(t, "EnableFocus", [World EXCEPT !.s.focusEnable = TRUE])

DisableFocus(t) == Locked(t, "DisableFocus", [World EXCEPT !.s.focusEnable = FALSE])

SetStyle(t, style) == Locked(t, "SetStyle", [World EXCEPT !.s.style = style])

\* Screen.SetContent: CellBuffer.SetContent on GetCells(), under the Mutex
ScreenSetContent(t, x, y, mainc, combc, style) ==
    Locked(t, "SetContent",
           [World EXCEPT !.s.cells = SetContent(@, x, y, mainc, combc, style,
                                                RuneWidth(mainc))])

SetTitle(t, title) ==
    Locked(t, "SetTitle",
           LET W == [World EXCEPT !.s.title = title]
           IN  IF W.s.vten THEN emitVtString(W, <<"vtSetTitle", title>>) ELSE W)

ShowCursor(t, x, y) ==
    Locked(t, "ShowCursor",
           doCursor(IF ~s.fini THEN [World EXCEPT !.s.curx = x, !.s.cury = y] ELSE World))

SetCursor(t, cs, cc) ==
    Locked(t, "SetCursor",
           IF ~s.fini /\ cs \in vtCursorStyles
           THEN doCursor([World EXCEPT !.s.cursorStyle = cs, !.s.cursorColor = cc])
           ELSE World)

\* a Sync that leaves the dirty bits as they are
showEnterAsShow(t, fn) ==
    /\ Idle(t) /\ s.mu = 0
    /\ IF s.fini
       THEN /\ UNCHANGED <<s, con, pc>>
            /\ emit' = <<>>
            /\ last' = Step(t, fn, TRUE, "")
       ELSE /\ Becomes([resize(hideCursor(World)) EXCEPT !.s.mu = t])
            /\ Goto(t, fn \o ".draw")
            /\ last' = Step(t, fn, FALSE, "")
    /\ UNCHANGED <<inited, scan, closedQ, signalled, input, nread, recvd>>

\* Show and Sync up to draw: Lock, (Invalidate), hideCursor, resize
showEnter(t, fn) ==
    /\ Idle(t) /\ s.mu = 0
    /\ IF s.fini
       THEN /\ UNCHANGED <<s, con, pc>>
            /\ emit' = <<>>
            /\ last' = Step(t, fn, TRUE, "")
       ELSE /\ LET W0 == IF fn = "Sync" THEN [World EXCEPT !.s.cells = Invalidate(@)]
                         ELSE World
                   W1 == resize(hideCursor(W0))
               IN  Becomes([W1 EXCEPT !.s.mu = t])
            /\ Goto(t, fn \o ".draw")
            /\ last' = Step(t, fn, FALSE, "")
    /\ UNCHANGED <<inited, scan, closedQ, signalled, input, nread, recvd>>

Show(t) == showEnter(t, "Show")

Sync(t) == showEnter(t, "Sync")

\* the rest of Show and Sync: draw, doCursor, Unlock
showLeave(t) ==
    /\ pc[t] \in {"Show.draw", "Sync.draw"}
    /\ LET W == doCursor(draw(World))
       IN  Becomes([W EXCEPT !.s.mu = 0])
    /\ Goto(t, "idle")
    /\ last' = Step(t, IF pc[t] = "Show.draw" THEN "Show" ELSE "Sync", TRUE, "")
    /\ UNCHANGED <<inited, scan, closedQ, signalled, input, nread, recvd>>

\* what GetLargestConsoleWindowSize can answer
Largest == {<<0, 0>>, <<4, 3>>, <<LargeConsole, 100>>}

\* SetSize: it takes no lock
SetSize(t, ww, wh) ==
    /\ Idle(t)
    /\ \E xy \in Largest :
         IF xy[1] = 0 \/ xy[2] = 0 \/ xy[1] >= LargeConsole
         THEN UNCHANGED <<s, con>> /\ emit' = <<>>
         ELSE Becomes(resize(setWindowInfo(setBufferSize(World, xy[1], xy[2]), ww, wh)))
    /\ last' = Step(t, "SetSize", TRUE, "")
    /\ UNCHANGED <<inited, pc, scan, closedQ, signalled, input, nread, recvd>>

(***************************************************************************)
(* The scanner goroutine of engage i: scanInput, getConsoleInput and       *)
(* postEvent.                                                              *)
(***************************************************************************)
\* the virtual key codes vkKeys maps
vkKeys ==
    {3, 8, 9, 12, 13, 19, 27, 32, 33, 34, 35, 36, 37, 38, 39, 40, 42, 44, 45, 46, 47}
        \cup (112..135)

\* a record without control key state
Rec(typ, isdown, repeat, ch, kcode) ==
    [typ |-> typ, isdown |-> isdown, repeat |-> repeat, ch |-> ch, kcode |-> kcode,
     mod |-> 0, focused |-> 0]

\* a key record and a mouse record with the control key state mod
KeyRec(isdown, repeat, ch, kcode, mod) ==
    [Rec("key", isdown, repeat, ch, kcode) EXCEPT !.mod = mod]

MouseRec(mod) == [Rec("mouse", 0, 0, 0, 0) EXCEPT !.mod = mod]

\* a focus record
FocusRec(focused) == [Rec("focus", 0, 0, 0, 0) EXCEPT !.focused = focused]

\* the records that arrive: a key press, a key press repeated past the
\* queue's depth, a mouse, a resize and a focus record
Records ==
    {Rec("key", 1, 1, 97, 65), Rec("key", 1, QueueCap + 1, 97, 65),
     Rec("mouse", 0, 0, 0, 0), Rec("resize", 0, 0, 0, 0), Rec("focus", 0, 0, 0, 0)}

\* a getConsoleInput that does not repeat
PostsOnce(rec) ==
    CASE rec.typ = "key" ->
           IF rec.isdown = 0 \/ rec.repeat < 1 THEN 0
           ELSE IF rec.ch # 0 THEN 1
           ELSE IF rec.kcode \in vkKeys THEN 1 ELSE 0
      [] rec.typ \in {"mouse", "resize", "focus"} -> 1
      [] OTHER -> 0

\* how many events getConsoleInput posts for a record (a focus record:
\* when focus reporting is found enabled)
Posts(rec) ==
    CASE rec.typ = "key" ->
           IF rec.isdown = 0 \/ rec.repeat < 1 THEN 0
           ELSE IF rec.ch # 0 THEN rec.repeat
           ELSE IF rec.kcode \in vkKeys THEN rec.repeat ELSE 0
      [] rec.typ \in {"mouse", "resize", "focus"} -> 1
      [] OTHER -> 0

\* a mod2mask that reports Ctrl and Alt together
mod2maskAltGr(cks) ==
    LET ctrl == HasBit(cks, 8) \/ HasBit(cks, 4)
        alt == HasBit(cks, 2) \/ HasBit(cks, 1)
    IN  (IF ctrl THEN {"ModCtrl"} ELSE {})
          \cup (IF alt THEN {"ModAlt"} ELSE {})
          \cup (IF HasBit(cks, 16) THEN {"ModShift"} ELSE {})

\* mod2mask: the modifiers of a control key state; Ctrl and Alt together
\* mean AltGr and are both left out
mod2mask(cks) ==
    LET ctrl == HasBit(cks, 8) \/ HasBit(cks, 4)
        alt == HasBit(cks, 2) \/ HasBit(cks, 1)
    IN  (IF ~(ctrl /\ alt) /\ ctrl THEN {"ModCtrl"} ELSE {})
          \cup (IF ~(ctrl /\ alt) /\ alt THEN {"ModAlt"} ELSE {})
          \cup (IF HasBit(cks, 16) THEN {"ModShift"} ELSE {})

\* NewEventKey, NewEventMouse: an event of the key, rune and modifiers
\* given
NewEventKey(key, ch, mod) ==
    [Event("key", 0) EXCEPT !.key = key, !.ch = ch, !.mod = mod]

NewEventMouse(mod) == [Event("mouse", 0) EXCEPT !.mod = mod]

NewEventFocus(focused) == [Event("focus", 0) EXCEPT !.focused = focused]

vkTab == 9

\* a decoding that knows no backtab
newEventPlain(rec) ==
    CASE rec.typ = "key" /\ rec.ch # 0 ->
           NewEventKey(<<"KeyRune">>, rec.ch, mod2mask(rec.mod))
      [] rec.typ = "key" /\ rec.ch = 0 ->
           NewEventKey(<<"vkKeys", rec.kcode>>, rec.ch, mod2mask(rec.mod))
      [] rec.typ = "mouse" -> NewEventMouse(mod2mask(rec.mod))
      [] rec.typ = "focus" -> NewEventFocus(rec.focused # 0)
      [] OTHER -> Event(rec.typ, 0)

\* the event getConsoleInput makes of a record it posts for: shift+tab
\* becomes a backtab, another character a rune, a virtual key its key
newEvent(rec) ==
    CASE rec.typ = "key" /\ rec.ch # 0 ->
           IF mod2mask(rec.mod) = {"ModShift"} /\ rec.ch = vkTab
           THEN NewEventKey(<<"KeyBacktab">>, 0, {})
           ELSE NewEventKey(<<"KeyRune">>, rec.ch, mod2mask(rec.mod))
      [] rec.typ = "key" /\ rec.ch = 0 ->
           NewEventKey(<<"vkKeys", rec.kcode>>, rec.ch, mod2mask(rec.mod))
      [] rec.typ = "mouse" -> NewEventMouse(mod2mask(rec.mod))
      [] rec.typ = "focus" -> NewEventFocus(rec.focused # 0)
      [] OTHER -> Event(rec.typ, 0)

Scanning(i, at) == scan[i].pc = at

ScanGoto(i, at) == scan' = [scan EXCEPT ![i].pc = at]

\* wg.Done and the goroutine's end
ScanExit(i) == ScanGoto(i, "done") /\ s' = [s EXCEPT !.wg = @ - 1]

\* (a scanInput that returns on an error without wg.Done)
ScanErrorNoDone(i, err) ==
    /\ scan' = [scan EXCEPT ![i].pc = "done", ![i].err = err]
    /\ s' = s

\* getConsoleInput returns the error err: scanInput returns
ScanError(i, err) ==
    /\ scan' = [scan EXCEPT ![i].pc = "done", ![i].err = err]
    /\ s' = [s EXCEPT !.wg = @ - 1]

ScanStep(op) ==
    /\ last' = Step(0, op, FALSE, "")
    /\ emit' = <<>>
    /\ UNCHANGED <<con, inited, pc, closedQ, signalled, recvd>>

\* scanInput's select on its stop channel
ScanCheck(i) ==
    /\ Scanning(i, "check")
    /\ IF i \in closedQ THEN ScanExit(i) ELSE ScanGoto(i, "call") /\ s' = s
    /\ ScanStep("other")
    /\ UNCHANGED <<input, nread>>

\* getConsoleInput reads s.cancelflag and waits
ScanWait(i) ==
    /\ Scanning(i, "call")
    /\ scan' = [scan EXCEPT ![i].pc = "wait", ![i].cf = s.cancelflag]
    /\ ScanStep("other")
    /\ UNCHANGED <<s, input, nread>>

\* the wait returns the cancellation event
ScanCancelled(i) ==
    /\ Scanning(i, "wait")
    /\ scan[i].cf \in signalled
    /\ ScanError(i, "cancelled")
    /\ ScanStep("other")
    /\ UNCHANGED <<input, nread>>

\* the wait returns the input handle and a record is read and decoded
ScanRead(i) ==
    /\ Scanning(i, "wait")
    /\ scan[i].cf \notin signalled
    /\ input # NoRec
    /\ nread' = nread + 1
    /\ input' = NoRec
    /\ scan' = [scan EXCEPT ![i] =
                  IF Posts(input) = 0 THEN [@ EXCEPT !.pc = "check", !.rec = input]
                  ELSE [@ EXCEPT !.pc = IF input.typ = "focus" THEN "focus" ELSE "post",
                                 !.rec = input, !.seen = s.focusEnable,
                                 !.ev = [newEvent(input) EXCEPT !.rec = nread + 1],
                                 !.n = Posts(input)]]
    /\ s' = s
    /\ ScanStep("other")

\* ReadConsoleInput fails: the scanner ends
ScanReadFails(i) ==
    /\ Scanning(i, "wait")
    /\ scan[i].cf \notin signalled
    /\ input # NoRec
    /\ ScanError(i, "ReadConsoleInput")
    /\ ScanStep("other")
    /\ UNCHANGED <<input, nread>>

\* a focus record: focusEnable read under the Mutex
ScanFocus(i) ==
    /\ Scanning(i, "focus")
    /\ s.mu = 0
    /\ ScanGoto(i, IF s.focusEnable THEN "post" ELSE "check")
    /\ s' = s
    /\ ScanStep("other")
    /\ UNCHANGED <<input, nread>>

\* after one postEvent: the next repeat, or back to scanInput's loop
Posted(i) ==
    scan' = [scan EXCEPT ![i].n = @ - 1,
                         ![i].pc = IF scan[i].n > 1 THEN "post" ELSE "check"]

\* a postEvent that only sends
postEventSendOnly(i) ==
    /\ Scanning(i, "post")
    /\ Len(s.eventQ) < QueueCap
    /\ s' = [s EXCEPT !.eventQ = Append(@, scan[i].ev)]
    /\ ScanStep("other")
    /\ Posted(i)
    /\ UNCHANGED <<input, nread>>

\* postEvent: the select sends on eventQ when it has room, or receives
\* from quit when it is closed
postEvent(i) ==
    /\ Scanning(i, "post")
    /\ \/ /\ Len(s.eventQ) < QueueCap
          /\ s' = [s EXCEPT !.eventQ = Append(@, scan[i].ev)]
          /\ ScanStep("other")
       \/ /\ s.quit = "closed"
          /\ s' = s
          /\ ScanStep("drop")
    /\ Posted(i)
    /\ UNCHANGED <<input, nread>>

(***************************************************************************)
(* The application's consumer, the console's user.                         *)
(***************************************************************************)
\* the consumer receives from EventQ()
Recv ==
    /\ inited = "ok"
    /\ Len(s.eventQ) > 0
    /\ s' = [s EXCEPT !.eventQ = Tail(@)]
    /\ recvd' = IF Head(s.eventQ).rec > 0 THEN Head(s.eventQ).rec ELSE recvd
    /\ last' = Step(0, "other", FALSE, "")
    /\ emit' = <<>>
    /\ UNCHANGED <<con, inited, pc, scan, closedQ, signalled, input, nread>>

\* a record arrives in the console's input buffer
InputArrives(R) ==
    /\ inited = "ok"
    /\ input = NoRec
    /\ nread < MaxRecords
    /\ input' \in R
    /\ last' = Step(0, "other", FALSE, "")
    /\ emit' = <<>>
    /\ UNCHANGED <<s, con, inited, pc, scan, closedQ, signalled, nread, recvd>>

\* the user resizes the console window
UserResize ==
    /\ inited = "ok"
    /\ \E sz \in WinSizes \ {con.win} : con' = [con EXCEPT !.win = sz]
    /\ last' = Step(0, "other", FALSE, "")
    /\ emit' = <<>>
    /\ UNCHANGED <<s, inited, pc, scan, closedQ, signalled, input, nread, recvd>>

(***************************************************************************)
(* Specifications.                                                         *)
(***************************************************************************)
\* a scanner that finds no input: it waits until it is cancelled
ScannerWaits(i) ==
    \/ ScanCheck(i)
    \/ ScanWait(i)
    \/ ScanCancelled(i)

Scanner(i) ==
    \/ ScannerWaits(i)
    \/ ScanRead(i)
    \/ ScanReadFails(i)
    \/ ScanFocus(i)
    \/ postEvent(i)

\* Suspend and Fini inside disengage
Disengaging(t) ==
    \/ disengageWait(t)
    \/ disengageLeave(t)
    \/ FiniDisengage(t)

Lifecycle(t, ES) ==
    \/ InitCall(t, ES)
    \/ Resume(t)
    \/ Suspend(t)
    \/ Fini(t)
    \/ Disengaging(t)

CursorArgs ==
    {<<"CursorStyleSteadyBar", "ColorRed">>, <<"CursorStyleBogus", "ColorRed">>}

Methods(t) ==
    \/ EnableMouse(t)
    \/ DisableMouse(t)
    \/ SetTitle(t, "T")
    \/ \E p \in {<<-1, -1>>, <<0, 0>>} : ShowCursor(t, p[1], p[2])
    \/ \E a \in CursorArgs : SetCursor(t, a[1], a[2])
    \/ Show(t)
    \/ Sync(t)
    \/ showLeave(t)

\* Spec: one goroutine calls the public methods, one after the other, on a
\* console where no input arrives
Next ==
    \/ InitOpenFails(1)
    \/ Lifecycle(1, Envs)
    \/ Methods(1)
    \/ \E i \in EngageIds : ScannerWaits(i)

Spec == Init /\ [][Next]_vars

\* a console with VT support, and no environment variable set
InitVt == Init /\ con.vtCapable

NoEnv ==
    {[ConEmuPID |-> "", TCELL_TRUECOLOR |-> "", TCELL_VTMODE |-> "",
      TCELL_ALTSCREEN |-> ""]}

\* FairSpec: one goroutine calls Init, Suspend, Resume and Fini; one record
\* arrives, a key held down for more repeats than the queue has room for or
\* a focus change, and nothing receives from the queue.  The Go scheduler
\* runs every goroutine that can run: a scanner that can take a step takes
\* one, and so does a caller inside disengage.  Nothing makes the input
\* arrive or the caller call.
NextIO ==
    \/ Lifecycle(1, NoEnv)
    \/ \E i \in EngageIds : Scanner(i)
    \/ /\ nread = 0
       /\ InputArrives({Rec("key", 1, QueueCap + 1, 97, 65), Rec("focus", 0, 0, 0, 0)})

FairSpec ==
    /\ InitVt
    /\ [][NextIO]_vars
    /\ \A i \in EngageIds : WF_vars(Scanner(i))
    /\ WF_vars(Disengaging(1))

\* ConcSpec: two goroutines call Init, Suspend, Resume and Fini while
\* records arrive and a consumer receives
NextConc ==
    \/ \E t \in Callers : Lifecycle(t, NoEnv)
    \/ \E i \in EngageIds : Scanner(i)
    \/ Recv
    \/ InputArrives({Rec("mouse", 0, 0, 0, 0), Rec("focus", 0, 0, 0, 0)})

ConcSpec == InitVt /\ [][NextConc]_vars

\* DrawSpec: two goroutines call the lifecycle methods, Show, Sync, SetStyle
\* and SetSize on a console where no input arrives
DrawMethods(t) ==
    \/ Show(t)
    \/ Sync(t)
    \/ showLeave(t)
    \/ SetStyle(t, StyleDefault)
    \/ \E sz \in WinSizes : SetSize(t, sz[1], sz[2])

NextDraw ==
    \/ \E t \in Callers : Lifecycle(t, NoEnv)
    \/ \E t \in Callers : DrawMethods(t)
    \/ \E i \in EngageIds : ScannerWaits(i)

DrawSpec == InitVt /\ [][NextDraw]_vars

\* KeySpec: one goroutine calls Init and Fini; one key or mouse record
\* arrives and nothing receives from the queue
MaxRepeat == 2

ControlKeyStates == {0, 1, 2, 4, 8, 16, 5, 10, 18, 24, 21, 26, 128, 272}

KeyRecords ==
    {KeyRec(d, r, k[1], k[2], m) :
       d \in {0, 1}, r \in 0..MaxRepeat,
       k \in {<<97, 65>>, <<vkTab, vkTab>>, <<0, vkTab>>, <<0, 65>>, <<0, 112>>},
       m \in ControlKeyStates}

MouseRecords == {MouseRec(m) : m \in ControlKeyStates}

NextKey ==
    \/ InitCall(1, NoEnv)
    \/ Fini(1)
    \/ Disengaging(1)
    \/ \E i \in EngageIds :
          ScannerWaits(i) \/ ScanRead(i) \/ ScanReadFails(i) \/ postEvent(i)
    \/ nread = 0 /\ InputArrives(KeyRecords \cup MouseRecords)

KeySpec == InitVt /\ [][NextKey]_vars

\* FocusSpec: one goroutine calls Init, EnableFocus, DisableFocus and Fini
\* while focus records arrive and a consumer receives
NextFocus ==
    \/ InitCall(1, NoEnv)
    \/ EnableFocus(1)
    \/ DisableFocus(1)
    \/ Fini(1)
    \/ Disengaging(1)
    \/ \E i \in EngageIds : Scanner(i)
    \/ Recv
    \/ InputArrives({FocusRec(0), FocusRec(1)})

FocusSpec == InitVt /\ [][NextFocus]_vars

\* StyleSpec: one goroutine writes a cell in some style and calls Sync
Styles ==
    [fg : {ColorDefault, ColorReset, "ColorNavy"},
     bg : {ColorDefault, "ColorRed"},
     attrs : SUBSET {"bold", "dim", "reverse", "underline"}]

NextStyle ==
    \/ InitCall(1, NoEnv)
    \/ \E st \in Styles : ScreenSetContent(1, 0, 0, "a", <<>>, st)
    \/ Sync(1)
    \/ showLeave(1)

StyleSpec == Init /\ [][NextStyle]_vars

\* LifeSpec: one goroutine calls Init, Suspend, Resume and Fini, one after
\* the other, under every environment, on a console where no input arrives
NextLife ==
    \/ Lifecycle(1, Envs)
    \/ \E i \in EngageIds : ScannerWaits(i)

LifeSpec == Init /\ [][NextLife]_vars

\* ResizeSpec: one goroutine calls Init, Show and Sync while the user
\* resizes the window and nothing receives from the queue
NextResize ==
    \/ InitCall(1, NoEnv)
    \/ UserResize
    \/ Show(1)
    \/ Sync(1)
    \/ showLeave(1)

ResizeSpec == Init /\ [][NextResize]_vars

\* ReadSpec: one goroutine calls Init, Suspend, Resume and Fini while key
\* records arrive, a read of which may fail, and nothing receives from the
\* queue.
NextRead ==
    \/ Lifecycle(1, NoEnv)
    \/ \E i \in EngageIds :
          ScannerWaits(i) \/ ScanRead(i) \/ ScanReadFails(i) \/ postEvent(i)
    \/ InputArrives({KeyRec(1, 1, 97, 65, 0)})

ReadSpec == InitVt /\ [][NextRead]_vars

\* CellSpec: one goroutine writes cells and calls Show and Sync on a
\* running screen whose viewport stays as it is
StyleRed == [fg |-> "ColorRed", bg |-> ColorDefault, attrs |-> {"bold"}]

\* the cells the application writes: position, rune, combining runes, style
Contents ==
    {<<0, 0, "W", <<>>, StyleDefault>>,
     <<0, 0, "a", <<>>, StyleDefault>>,
     <<1, 0, "b", <<>>, StyleRed>>,
     <<1, 0, "W", <<>>, StyleDefault>>,
     <<2, 0, "W", <<"^">>, StyleDefault>>,
     <<0, 1, "a", <<"^">>, StyleRed>>}

NextCell ==
    \/ InitCall(1, NoEnv)
    \/ \E c \in Contents : ScreenSetContent(1, c[1], c[2], c[3], c[4], c[5])
    \/ Show(1)
    \/ Sync(1)
    \/ showLeave(1)

CellSpec == Init /\ [][NextCell]_vars

(***************************************************************************)
(* Properties of Init, Fini, Suspend and Resume.                           *)
(***************************************************************************)
\* the calls this screen's goroutines are inside
Returned(op) == last.op = op /\ last.done

FiniReturned == s.finiOnce = "done"

\* the console settings Init captured
Restored ==
    /\ con.inMode = s.oimode
    /\ con.outMode = s.oomode
    /\ con.cursor = s.ocursor
    /\ con.size = s.oscreen.size
    /\ con.attrs = s.oscreen.attrs

\* C1: when Fini returns, the console's input mode, output mode, cursor
\* info, buffer dimensions and text attribute are the ones Init captured,
\* whatever calls were made in between
C1_FiniRestores ==
    [][(s.finiOnce = "doing" /\ s'.finiOnce = "done") => Restored']_vars

\* C2: once Fini has returned, Show, Sync, ShowCursor and SetCursor change
\* neither the screen's state nor the console
C2_NoOpAfterFini ==
    [][(FiniReturned /\ last'.op \in {"Show", "Sync", "ShowCursor", "SetCursor"})
         => (s' = s /\ con' = con /\ emit' = <<>>)]_vars

\* C3: a call of Fini after the first does nothing: the screen, the
\* console, the scanners and the channels stay as they are and the call
\* returns at once
C3_FiniOnce ==
    [][(FiniReturned /\ last'.op = "Fini")
         => /\ last'.done
            /\ emit' = <<>>
            /\ UNCHANGED <<s, con, inited, pc, scan, closedQ, signalled>>]_vars

\* a later Fini has returned on a screen that a Resume engaged again
C3_SecondFini == FiniReturned /\ Returned("Fini") /\ emit = <<>> /\ s.running

\* C4: once Fini has returned, no call sets running, creates a cancellation
\* event, starts a scanner or enters the alternate screen
C4_NoEngageAfterFini ==
    [][FiniReturned
         => /\ s'.running => s.running
            /\ s'.cancelflag = s.cancelflag
            /\ \A i \in EngageIds : scan[i].pc = "none" => scan'[i].pc = "none"
            /\ con'.alt => con.alt]_vars

\* C5: engage on a running screen returns "already engaged" and changes
\* nothing
C5_AlreadyEngaged ==
    [][(s.running /\ last'.op = "Resume")
         => /\ last'.done /\ last'.err = "already engaged"
            /\ emit' = <<>>
            /\ UNCHANGED <<s, con, inited, pc, scan, closedQ, signalled>>]_vars

\* a Resume has returned "already engaged"
C5_Refused == Returned("Resume") /\ last.err = "already engaged" /\ s.running

(***************************************************************************)
(* Properties of the scanner goroutine.                                    *)
(***************************************************************************)
Executing(i) == scan[i].pc \notin {"none", "done"}

\* a scanner inside postEvent that cannot send
Blocked(i) == scan[i].pc = "post" /\ Len(s.eventQ) = QueueCap

InSuspend(t) == pc[t] \in {"Suspend.wait", "Suspend.restore"}

InFini(t) == pc[t] \in {"Fini.disengage", "Fini.wait", "Fini.restore"}

\* C6: when Fini returns, no scanner goroutine is executing
C6_FiniJoinsScanner ==
    [][(s.finiOnce = "doing" /\ s'.finiOnce = "done")
         => \A i \in EngageIds : ~Executing(i)']_vars

\* C7: a Suspend that has been called returns, even when the queue holds
\* QueueCap events and nothing receives
C7_SuspendReturns == InSuspend(1) ~> ~InSuspend(1)

\* C8: if a scanner is blocked in postEvent on a full queue when Fini is
\* called, its post completes and Fini returns, with no consumer having to
\* receive; a post that finds the queue full completes only by dropping
\* its event, and only once quit is closed
C8_FiniUnblocksPost ==
    /\ (InFini(1) /\ \E i \in EngageIds : Blocked(i))
         ~> (FiniReturned /\ pc[1] = "idle")
    /\ [][\A i \in EngageIds :
            (Blocked(i) /\ scan'[i] # scan[i])
              => (s.quit = "closed" /\ s'.eventQ = s.eventQ)]_vars

\* a scanner has just dropped an event on a full queue while Fini waits
C8_Dropped ==
    /\ last.op = "drop"
    /\ Len(s.eventQ) = QueueCap
    /\ pc[1] = "Fini.wait"

\* C9: the consumer receives the events of input records in the order the
\* records were read: it never receives an event of an earlier record
\* after an event of a later one
C9_ReceivedInOrder == [][recvd' >= recvd]_vars

(***************************************************************************)
(* Properties of the Mutex.                                                *)
(***************************************************************************)
Drawing(t) == pc[t] \in {"Show.draw", "Sync.draw"}

\* C10: while a Show or Sync is drawing, no other call changes W, H, the
\* size of the cell buffer or the console
C10_DrawExcludes ==
    [][\A t \in Callers :
         (Drawing(t) /\ pc'[t] = pc[t])
           => /\ s'.w = s.w /\ s'.h = s.h
              /\ s'.cells.w = s.cells.w /\ s'.cells.h = s.cells.h
              /\ con' = con]_vars

(***************************************************************************)
(* Properties of the renderer.                                             *)
(***************************************************************************)
\* the style a cell is drawn in
Effective(c) == IF c.style = StyleDefault THEN s.style ELSE c.style

\* what the console is told for a style: the SGR selection, or the
\* attribute word
Rendition(style) ==
    IF s.vten THEN makeVtStyle(style) ELSE mapStyle(s.oscreen.attrs, style)

\* the display shows glyph g at p
Shows(p, g) == p \in DOMAIN con.screen /\ con.screen[p] = g

\* the glyph the cell buffer holds at p
Held(p) ==
    LET c == s.cells.c[p]
    IN  [ch |-> c.mainc, comb |-> c.combc, st |-> Rendition(Effective(c))]

\* p is the right-hand slot of a width-2 cell
Covered(p) ==
    /\ <<p[1] - 1, p[2]>> \in DOMAIN s.cells.c
    /\ s.cells.c[<<p[1] - 1, p[2]>>].width = 2

\* a width-2 cell in the last column
AtEdge(p) == p[1] > s.w - s.cells.c[p].width

RECURSIVE Columns(_)
Columns(ch) == IF Len(ch) = 0 THEN 0 ELSE RuneWidth(Head(ch)) + Columns(Tail(ch))

\* the positions a write of ch from (x, y) takes
Span(x, y, ch) == {<<x + dx, y>> : dx \in 0..(Columns(ch) - 1)}

\* the positions the console calls out write to, the cursor being at pos:
\* a VT write names its position, a legacy write starts at the cursor
RECURSIVE Written(_, _)
Written(out, pos) ==
    IF Len(out) = 0 THEN {}
    ELSE LET call == Head(out)
         IN  IF call[1] = "setCursorPos" THEN Written(Tail(out), <<call[2], call[3]>>)
             ELSE IF call[1] = "WriteConsole" /\ Len(call) = 4
             THEN Span(call[2][3] - 1, call[2][2] - 1, call[4]) \cup Written(Tail(out), pos)
             ELSE IF call[1] = "WriteConsole"
             THEN Span(pos[1], pos[2], call[2]) \cup Written(Tail(out), pos)
             ELSE Written(Tail(out), pos)

\* C12: a Sync writes every position of the grid, whatever was dirty
\* before; the right-hand slot of a width-2 cell is written with the cell
C12_SyncWritesAll ==
    Returned("Sync") => Grid(s.w, s.h) \subseteq Written(emit, <<0, 0>>)

\* a Sync has returned on a grid that holds a width-2 cell and its slot
C12_Synced ==
    /\ Returned("Sync")
    /\ \E p \in Grid(s.w, s.h) : s.cells.c[p].width = 2 /\ ~AtEdge(p)

\* the draw of a Show or Sync under VT
VtDraw == \E t \in Callers : Drawing(t) /\ pc'[t] = "idle" /\ s.vten

\* the writes of text among the console calls out
VtWrites(out) == SelectSeq(out, LAMBDA c : c[1] = "WriteConsole" /\ Len(c) = 4)

\* the write draw issues for a run that starts at p in style st with text
vtWrite(p, st, text) ==
    <<"WriteConsole", <<"vtCursorPos", p[2] + 1, p[1] + 1>>,
      <<"vtStyle", makeVtStyle(st)>>, text>>

\* the code units of the cell at p, a glyph over the last column being a
\* space
Glyph(p) ==
    LET c == s.cells.c[p]
    IN  IF AtEdge(p) THEN <<" ">> ELSE <<c.mainc>> \o c.combc

IsDirty(p) == p \in DOMAIN s.cells.c /\ s.cells.c[p].dirty

\* p starts a span: a dirty cell whose left neighbour is no dirty cell of
\* its style
SpanStart(p) ==
    /\ IsDirty(p)
    /\ LET l == <<p[1] - 1, p[2]>>
       IN  IsDirty(l) => Effective(s.cells.c[l]) # Effective(s.cells.c[p])

\* the code units of the span from p on, in the style st
RECURSIVE SpanText(_, _)
SpanText(p, st) ==
    IF IsDirty(p) /\ Effective(s.cells.c[p]) = st
    THEN Glyph(p) \o SpanText(<<p[1] + 1, p[2]>>, st)
    ELSE <<>>

\* C13: under VT a draw issues exactly one write - position, style, text -
\* for each maximal span of adjacent dirty cells of a row in one effective
\* style, and nothing else
C13_OneWritePerSpan ==
    [][VtDraw =>
         LET ws == VtWrites(emit')
             starts == {p \in Grid(s.w, s.h) : SpanStart(p)}
         IN  /\ Len(ws) = Cardinality(starts)
             /\ \A p \in starts :
                   \E i \in 1..Len(ws) :
                      ws[i] = vtWrite(p, Effective(s.cells.c[p]),
                                      SpanText(p, Effective(s.cells.c[p])))]_vars

\* p is a dirty width-2 cell that is drawn as a wide glyph
Wide(p) == IsDirty(p) /\ s.cells.c[p].width = 2 /\ ~AtEdge(p)

\* draw passes over p: the column after a wide glyph it has drawn
RECURSIVE Passed(_)
Passed(p) ==
    /\ p[1] > 0
    /\ LET l == <<p[1] - 1, p[2]>> IN ~Passed(l) /\ Wide(l)

\* the column draw goes to after p
After(p) == <<p[1] + (IF Wide(p) THEN 2 ELSE 1), p[2]>>

\* the cell draw comes to p from
Before(p) ==
    LET l == <<p[1] - 1, p[2]>> IN IF Passed(l) THEN <<p[1] - 2, p[2]>> ELSE l

\* p starts a run: a dirty cell draw comes to, the cell before it being no
\* dirty cell of its style
RunStart(p) ==
    /\ IsDirty(p) /\ ~Passed(p)
    /\ IsDirty(Before(p)) => Effective(s.cells.c[Before(p)]) # Effective(s.cells.c[p])

\* the code units of the run from p on, in the style st
RECURSIVE RunText(_, _)
RunText(p, st) ==
    IF IsDirty(p) /\ Effective(s.cells.c[p]) = st
    THEN Glyph(p) \o RunText(After(p), st)
    ELSE <<>>

\* the runs of row y from column x on, in the order of the columns
RECURSIVE RowWrites(_, _)
RowWrites(x, y) ==
    IF x >= s.w THEN <<>>
    ELSE (IF RunStart(<<x, y>>)
          THEN LET st == Effective(s.cells.c[<<x, y>>])
               IN  <<vtWrite(<<x, y>>, st, RunText(<<x, y>>, st))>>
          ELSE <<>>) \o RowWrites(x + 1, y)

\* the runs of the rows from y on, row by row
RECURSIVE GridWrites(_)
GridWrites(y) == IF y >= s.h THEN <<>> ELSE RowWrites(0, y) \o GridWrites(y + 1)

\* C13, amended: under VT a draw issues exactly one write - position,
\* style, text - for each maximal run of dirty cells of a row in one
\* effective style, row by row and left to right, and nothing else; the
\* column after a dirty width-2 cell that is drawn as a wide glyph is no
\* cell of the row and does not end the run
C13_OneWritePerRun == [][VtDraw => VtWrites(emit') = GridWrites(0)]_vars

\* a Show under VT has split two adjacent dirty cells of a row into two
\* writes, and has written a row below in another write
C13_Split ==
    /\ Returned("Show") /\ s.vten
    /\ LET ws == VtWrites(emit)
       IN  \E i, j \in 1..Len(ws) :
              /\ i < j
              /\ ws[i][2][2] = ws[j][2][2]
              /\ ws[j][2][3] = ws[i][2][3] + Columns(ws[i][4])
              /\ ws[i][3] # ws[j][3]
              /\ \E k \in 1..Len(ws) : ws[k][2][2] > ws[j][2][2]

\* the draw of a Show or Sync
DrawStep == \E t \in Callers : Drawing(t) /\ pc'[t] = "idle"

\* a width-2 cell at a column x with x + 2 > W that is dirty
DirtyAtEdge(p) == IsDirty(p) /\ s.cells.c[p].width = 2 /\ p[1] + 2 > s.w

\* the draw has put one space without combining runes on column p, no
\* write running over the last column, and has left the stored cell as
\* it was
SpaceDrawn(p) ==
    /\ p \in DOMAIN con'.screen
    /\ con'.screen[p].ch = " " /\ con'.screen[p].comb = <<>>
    /\ \A q \in Written(emit', <<0, 0>>) : q[1] < s.w
    /\ s'.cells.c[p].mainc = s.cells.c[p].mainc
    /\ s'.cells.c[p].combc = s.cells.c[p].combc
    /\ s'.cells.c[p].style = s.cells.c[p].style
    /\ s'.cells.c[p].width = s.cells.c[p].width

\* C14: for a dirty width-2 cell in the last column draw emits one space
\* without combining runes for that column and leaves the stored rune,
\* combining runes, style and width as they were
C14_EdgeSpace ==
    [][DrawStep => \A p \in Grid(s.w, s.h) : DirtyAtEdge(p) => SpaceDrawn(p)]_vars

\* C14, amended: the same for a dirty width-2 cell in the last column that
\* is not the column after a dirty width-2 cell drawn as a wide glyph
C14_EdgeSpaceReached ==
    [][DrawStep =>
         \A p \in Grid(s.w, s.h) : DirtyAtEdge(p) /\ ~Passed(p) => SpaceDrawn(p)]_vars

\* a draw has shown a space for a wide rune with a combining rune that
\* the cell buffer holds in the last column
C14_EdgeDrawn ==
    /\ Returned("Show") \/ Returned("Sync")
    /\ \E p \in Grid(s.w, s.h) :
         /\ s.cells.c[p].mainc = "W" /\ s.cells.c[p].combc # <<>>
         /\ s.cells.c[p].width = 2 /\ AtEdge(p) /\ ~s.cells.c[p].dirty
         /\ Shows(p, [Held(p) EXCEPT !.ch = " ", !.comb = <<>>])

(***************************************************************************)
(* Properties of the input decoding.                                       *)
(***************************************************************************)
\* scanner i has read a record of type typ and is through with it, and no
\* Fini has closed the quit channel
Decoded(i, typ) ==
    /\ scan[i].rec.typ = typ
    /\ scan[i].pc \in {"check", "call", "wait", "done"}
    /\ s.quit = "open"

\* the key and mouse events on the queue
InputEvents == SelectSeq(s.eventQ, LAMBDA e : e.kind \in {"key", "mouse"})

\* the key is in the key map
Mapped(kcode) == kcode \in vkKeys

\* C15: a key record posts no event when it is a release, when its repeat
\* count is below 1, or when it has no character and a virtual key outside
\* the key map; any other key record posts as many events as its repeat
\* count, all the same
C15_KeyPosts ==
    \A i \in EngageIds :
       Decoded(i, "key") =>
          LET rec == scan[i].rec
              none == rec.isdown = 0 \/ rec.repeat < 1
                         \/ (rec.ch = 0 /\ ~Mapped(rec.kcode))
          IN  /\ Len(InputEvents) = IF none THEN 0 ELSE rec.repeat
              /\ \A j, k \in 1..Len(InputEvents) : InputEvents[j] = InputEvents[k]

\* a key held down has posted its repeats
C15_Repeated ==
    \E i \in EngageIds :
       /\ Decoded(i, "key") /\ scan[i].rec.repeat = MaxRepeat
       /\ Len(InputEvents) = MaxRepeat

\* the control key state has the shift bit and no ctrl or alt bit
OnlyShift(cks) ==
    /\ HasBit(cks, 16)
    /\ ~(HasBit(cks, 8) \/ HasBit(cks, 4) \/ HasBit(cks, 2) \/ HasBit(cks, 1))

Backtab == NewEventKey(<<"KeyBacktab">>, 0, {})

\* a key press with the character tab
TabPressed(rec) == rec.isdown # 0 /\ rec.repeat >= 1 /\ rec.ch = vkTab

\* C16: a key press with the character tab posts a backtab event with
\* rune 0 and no modifiers exactly when its modifiers are shift alone, and
\* with any other modifiers a rune event for tab
C16_Backtab ==
    \A i \in EngageIds :
       Decoded(i, "key") /\ TabPressed(scan[i].rec) =>
          \A j \in 1..Len(InputEvents) :
             LET e == [InputEvents[j] EXCEPT !.rec = 0]
                 mask == mod2mask(scan[i].rec.mod)
             IN  IF mask = {"ModShift"} THEN e = Backtab
                 ELSE e = NewEventKey(<<"KeyRune">>, vkTab, mask)

\* a shift+tab has posted a backtab
C16_TabPosted ==
    \E i \in EngageIds :
       /\ Decoded(i, "key") /\ TabPressed(scan[i].rec)
       /\ Len(InputEvents) > 0
       /\ OnlyShift(scan[i].rec.mod)
       /\ [InputEvents[1] EXCEPT !.rec = 0] = Backtab

\* the control key state has a ctrl bit and an alt bit
CtrlAndAlt(cks) ==
    /\ HasBit(cks, 8) \/ HasBit(cks, 4)
    /\ HasBit(cks, 2) \/ HasBit(cks, 1)

\* no key or mouse event has both Ctrl and Alt
NoCtrlAlt == \A j \in 1..Len(InputEvents) : ~({"ModCtrl", "ModAlt"} \subseteq InputEvents[j].mod)

\* C17: no key or mouse event has both Ctrl and Alt; the events of a
\* record whose control key state has a ctrl bit and an alt bit have
\* neither, and have Shift exactly when the shift bit is set
C17_AltGrStripped ==
    /\ NoCtrlAlt
    /\ \A i \in EngageIds :
          (Decoded(i, "key") \/ Decoded(i, "mouse")) /\ CtrlAndAlt(scan[i].rec.mod) =>
             \A j \in 1..Len(InputEvents) :
                /\ InputEvents[j].mod \cap {"ModCtrl", "ModAlt"} = {}
                /\ "ModShift" \in InputEvents[j].mod <=> HasBit(scan[i].rec.mod, 16)

\* C17, amended: the same, but a backtab event has no Shift
C17_AltGrStrippedButBacktab ==
    /\ NoCtrlAlt
    /\ \A i \in EngageIds :
          (Decoded(i, "key") \/ Decoded(i, "mouse")) /\ CtrlAndAlt(scan[i].rec.mod) =>
             \A j \in 1..Len(InputEvents) :
                /\ InputEvents[j].mod \cap {"ModCtrl", "ModAlt"} = {}
                /\ InputEvents[j].key # <<"KeyBacktab">> =>
                      ("ModShift" \in InputEvents[j].mod <=> HasBit(scan[i].rec.mod, 16))

\* a record with ctrl, alt and shift has posted an event with Shift alone
C17_AltGrPosted ==
    \E i \in EngageIds :
       /\ Decoded(i, "key") \/ Decoded(i, "mouse")
       /\ CtrlAndAlt(scan[i].rec.mod) /\ HasBit(scan[i].rec.mod, 16)
       /\ Len(InputEvents) > 0
       /\ InputEvents[1].mod = {"ModShift"}

\* scanner i enqueues the focus event it holds
FocusEnqueued(i) ==
    /\ scan[i].pc = "post" /\ scan[i].ev.kind = "focus"
    /\ Len(s'.eventQ) > Len(s.eventQ)

\* C18: no focus event is enqueued for a record that was read while focus
\* reporting was disabled
C18_FocusWhenEnabled ==
    [][\A i \in EngageIds : FocusEnqueued(i) => scan[i].seen]_vars

(***************************************************************************)
(* Properties of the legacy attribute word.                                *)
(***************************************************************************)
IsDefault(color) == color \in {ColorDefault, ColorReset}

\* attr is an attribute word for the style when the attribute captured at
\* Init is oattrs: no bit outside 0x80FF; of the foreground and background
\* indices F and B, a default or reset color is the matching nibble of
\* oattrs; the high nibble is B, or F under reverse, the low nibble the
\* other one with bit 8 set by bold and cleared by dim
AttrFor(attr, style, oattrs) ==
    /\ attr \in 0..65535
    /\ (attr \div 256) % 128 = 0
    /\ \E F, B \in 0..15 :
         /\ IsDefault(style.fg) => F = oattrs % 16
         /\ IsDefault(style.bg) => B = (oattrs \div 16) % 16
         /\ LET lo == IF "reverse" \in style.attrs THEN B ELSE F
                hi == IF "reverse" \in style.attrs THEN F ELSE B
            IN  /\ (attr \div 16) % 16 = hi
                /\ attr % 8 = lo % 8
                /\ HasBit(attr, 8) =
                      IF "dim" \in style.attrs THEN FALSE
                      ELSE IF "bold" \in style.attrs THEN TRUE
                      ELSE HasBit(lo, 8)

\* the legacy path has drawn every cell
LegacySynced == Returned("Sync") /\ ~s.vten

\* C19: the attribute word of every style has no bit outside 0x80FF, takes
\* the nibble of the attribute captured at Init for a default or reset
\* color, and exchanges the nibbles under reverse before bold sets and dim
\* clears bit 8 of the low nibble
C19_AttributeWord ==
    LegacySynced =>
       \A p \in Grid(s.w, s.h) :
          /\ p \in DOMAIN con.screen
          /\ AttrFor(con.screen[p].st, Effective(s.cells.c[p]), s.oscreen.attrs)

\* a cell in a reversed bold style with a default foreground has been
\* drawn
C19_ReversedBold ==
    /\ LegacySynced
    /\ \E p \in Grid(s.w, s.h) :
         /\ {"reverse", "bold"} \subseteq s.cells.c[p].style.attrs
         /\ s.cells.c[p].style.fg = ColorDefault
         /\ s.cells.c[p].style.bg = "ColorRed"
         /\ p \in DOMAIN con.screen

(***************************************************************************)
(* Properties of Init's choice of the rendering path.                      *)
(***************************************************************************)
\* the step is an Init that found the environment E
InitUnder(E) ==
    /\ inited = "new" /\ last'.op = "Init"
    /\ \E created \in BOOLEAN :
         LET W == engageBody(initBody(World, E), 1, created)
         IN  s' = W.s /\ con' = W.con /\ emit' = W.out

\* the Init has asked the console for VT output
VtAttempted == \E k \in 1..Len(emit') : emit'[k] = <<"setOutMode", VtOutMode>>

VtSkipped == ~VtAttempted /\ ~s'.vten

\* C20: Init follows the environment table.  With TCELL_VTMODE unset,
\* TCELL_TRUECOLOR=enable attempts VT with truecolor on,
\* TCELL_TRUECOLOR=disable skips the attempt with truecolor off, and so
\* does a ConEmuPID when TCELL_TRUECOLOR is unset; TCELL_VTMODE=enable
\* attempts VT and TCELL_VTMODE=disable skips the attempt
C20_EnvTable ==
    [][\A E \in Envs :
         InitUnder(E) =>
            /\ E.TCELL_VTMODE = "enable" => VtAttempted
            /\ E.TCELL_VTMODE = "disable" => VtSkipped
            /\ E.TCELL_VTMODE = "" /\ E.TCELL_TRUECOLOR = "enable" =>
                  VtAttempted /\ (s'.vten => s'.truecolor)
            /\ E.TCELL_VTMODE = "" /\ E.TCELL_TRUECOLOR = "disable" =>
                  VtSkipped /\ ~s'.truecolor
            /\ E.TCELL_VTMODE = "" /\ E.TCELL_TRUECOLOR = "" /\ E.ConEmuPID # "" =>
                  VtSkipped /\ ~s'.truecolor]_vars

(***************************************************************************)
(* Properties of the size.                                                 *)
(***************************************************************************)
\* a SetSize has returned that found a largest window it accepts; its
\* second console call carries the size it was asked for
SetSizeApplied == Returned("SetSize") /\ Len(emit) >= 2

\* C21: after a SetSize(w, h) that found a largest window that is not zero
\* and below the threshold, the console's buffer and window, the tracked
\* size and the cell buffer are all w x h
C21_SetSizeApplies ==
    SetSizeApplied =>
       LET sz == <<emit[2][2], emit[2][3]>>
       IN  /\ con.size = sz /\ con.win = sz
           /\ <<s.w, s.h>> = sz
           /\ <<s.cells.w, s.cells.h>> = sz

(***************************************************************************)
(* Properties of the scanner goroutines.                                   *)
(***************************************************************************)
\* C22: at most one scanner goroutine is executing, and a scanner that
\* waits does so on the cancellation event of the engage that started it
C22_OneScanner ==
    /\ Cardinality({i \in EngageIds : Executing(i)}) <= 1
    /\ \A i \in EngageIds : scan[i].pc = "wait" => scan[i].cf = i

(***************************************************************************)
(* Properties of the console modes.                                        *)
(***************************************************************************)
\* the screen is running and no caller is inside a call
RunningAtRest == inited = "ok" /\ s.running /\ \A t \in Callers : pc[t] = "idle"

\* C23: while the screen is running and no lifecycle call is in progress,
\* the console input mode is extended flags and resize events, and the
\* mouse flag exactly when mouse reporting is enabled
C23_InputMode ==
    RunningAtRest =>
       con.inMode = modeExtendFlg + modeResizeEn
                      + (IF s.mouseEnabled THEN modeMouseEn ELSE 0)

(***************************************************************************)
(* Properties of the alternate screen and of the legacy clear.             *)
(***************************************************************************)
\* console call k of the step is the VT string vs, and the call before it
\* is the VT string before
VtPair(k, before, vs) ==
    /\ emit'[k] = <<"vt", vs>>
    /\ k > 1 /\ emit'[k - 1] = <<"vt", before>>

\* a caller is inside disengage, past its running flag
InDisengage(t) ==
    pc[t] \in {"Suspend.wait", "Suspend.restore", "Fini.wait", "Fini.restore"}

\* C24: the alternate screen is entered only when the terminal is not in
\* it and left only when it is in it, each right after the title is saved
\* or restored, and only under VT with the alternate screen enabled; when
\* no call is inside disengage the terminal is in the alternate screen
\* exactly when the screen is running under VT with the alternate screen
\* enabled
C24_AltScreen ==
    [][/\ \A k \in 1..Len(emit') :
            /\ emit'[k] = <<"vt", "vtEnterCA">> =>
                  ~con.alt /\ VtPair(k, "vtSaveTitle", "vtEnterCA")
                    /\ s'.vten /\ ~s'.disableAlt
            /\ emit'[k] = <<"vt", "vtExitCA">> =>
                  con.alt /\ VtPair(k, "vtRestoreTitle", "vtExitCA")
                    /\ s'.vten /\ ~s'.disableAlt
       /\ (\A t \in Callers : ~InDisengage(t)') =>
             (con'.alt <=> s'.running /\ s'.vten /\ ~s'.disableAlt)]_vars

\* a Resume has entered the alternate screen again after a Suspend left it
C24_Reentered ==
    /\ Returned("Resume") /\ last.err = ""
    /\ s.stopQ > 1
    /\ con.alt
    /\ \E k \in 1..Len(emit) : emit[k] = <<"vt", "vtEnterCA">>

\* the legacy tail of disengage: the step of a caller past wg.Wait on a
\* screen without VT
LegacyRestore == \E t \in Callers : pc[t] \in {"Suspend.restore", "Fini.restore"} /\ ~s.vten

\* C25: under the legacy path a disengage clears the screen and then puts
\* the cursor at (0, 0), before it restores the cursor, the buffer size
\* and the modes
C25_LegacyClear ==
    [][LegacyRestore =>
         \E k \in 1..Len(emit') :
            /\ emit'[k] = <<"setCursorPos", 0, 0>>
            /\ \E j \in 1..(k - 1) : emit'[j][1] = "FillConsoleOutputCharacter"
            /\ \A j \in 1..Len(emit') :
                  emit'[j][1] \in {"setCursorInfo", "setBufferSize", "setInMode", "setOutMode"}
                     => j > k]_vars

\* a Show or Sync takes the Mutex and settles the size
ShowEnters == \E t \in Callers : pc[t] = "idle" /\ Drawing(t)'

\* C26: a Show or Sync leaves the tracked size and the cell buffer's size
\* at the console viewport's size of that call, and draws without changing
\* them; a changed viewport adds one resize event to a queue with room
\* and nothing to a queue that holds QueueCap events, an unchanged one
\* adds nothing
C26_ShowSettlesSize ==
    [][/\ ShowEnters =>
            /\ <<s'.w, s'.h>> = con.win
            /\ <<s'.cells.w, s'.cells.h>> = con.win
            /\ s'.eventQ =
                  IF <<s.w, s.h>> # con.win /\ Len(s.eventQ) < QueueCap
                  THEN Append(s.eventQ, Event("resize", 0))
                  ELSE s.eventQ
       /\ DrawStep =>
            /\ <<s'.w, s'.h>> = <<s.w, s.h>>
            /\ <<s'.cells.w, s'.cells.h>> = <<s.w, s.h>>
            /\ s'.eventQ = s.eventQ]_vars

\* a Show has settled a changed viewport with the queue full
C26_SettledWhenFull ==
    /\ last.op = "Show" /\ ~last.done
    /\ Len(s.eventQ) = QueueCap
    /\ \E k \in 1..Len(emit) : emit[k] = <<"setBufferSize", s.w, s.h>>

(***************************************************************************)
(* Properties of a failed read.                                            *)
(***************************************************************************)
\* the read of scanner i fails in this step
ReadFails(i) == scan[i].err = "" /\ scan'[i].err = "ReadConsoleInput"

\* a scanner has ended on a failed read and none is executing
ReadFailed ==
    /\ \E i \in EngageIds : scan[i].err = "ReadConsoleInput"
    /\ \A i \in EngageIds : ~Executing(i)

\* C27: a failed read ends the scanner and leaves the running flag and
\* the queue as they are; while no scanner is executing no event is
\* posted; a Suspend or Fini that is at wg.Wait then is not held there
\* (the counter is zero), and it returns with the console restored; and a
\* Resume that engages after a failed read starts a scanner that is
\* executing
C27_ReadFailure ==
    /\ [][/\ \A i \in EngageIds :
              (ReadFails(i) =>
                 ~Executing(i)' /\ s'.running = s.running /\ s'.eventQ = s.eventQ)
           /\ (ReadFailed => InputEvents' = InputEvents)
           /\ (ReadFailed /\ ~s.running /\ s'.running =>
                 scan'[s'.stopQ].pc \notin {"none", "done"} /\ scan'[s'.stopQ].err = "")
           /\ (ReadFailed /\ InDisengage(1) /\ pc'[1] = "idle" => Restored')]_vars
    /\ [](ReadFailed /\ pc[1] \in {"Suspend.wait", "Fini.wait"} => s.wg = 0)

\* after a failed read on a running screen, a Suspend has returned and a
\* Resume has started the second scanner
C27_FreshScanner ==
    /\ scan[1].err = "ReadConsoleInput"
    /\ Returned("Resume") /\ last.err = ""
    /\ s.running /\ s.stopQ = 2 /\ Executing(2)
    /\ s.finiOnce = "new"

(***************************************************************************)
(* Properties of the dirty bits.                                           *)
(***************************************************************************)
\* the step's console calls write the rune r
Wrote(r) ==
    \E k \in 1..Len(emit) :
       /\ emit[k][1] = "WriteConsole"
       /\ \E j \in 1..Len(emit[k][Len(emit[k])]) : emit[k][Len(emit[k])][j] = r

\* C28: when Show or Sync returns and s.fini is not set, the cell buffer
\* is the s.w x s.h grid and none of its cells is dirty, whichever cells
\* were dirty when draw began
C28_ShowCleans ==
    [][DrawStep /\ ~s.fini =>
         /\ DOMAIN s'.cells.c = Grid(s'.w, s'.h)
         /\ DirtySet(s'.cells) = {}]_vars

\* a Show has returned after writing a wide glyph, and the buffer holds a
\* width-2 cell that is not in the last column and one that is, all clean
C28_WideCleaned ==
    /\ Returned("Show") /\ ~s.fini
    /\ Wrote("W")
    /\ DirtySet(s.cells) = {}
    /\ \E p \in Grid(s.w, s.h) :
         s.cells.c[p].width = 2 /\ ~AtEdge(p) /\ <<p[1] + 1, p[2]>> \in Grid(s.w, s.h)
    /\ \E p \in Grid(s.w, s.h) : s.cells.c[p].width = 2 /\ AtEdge(p)

====
